---- MODULE Spec2Model ----
(***************************************************************************)
(* ShaderAssist (shaderassist.cpp): the watch-and-rebuild loop.            *)
(*                                                                         *)
(* Two threads share two atomic flags.  watchShaders (the scheduler        *)
(* thread) enumerates the watched directory once per cycle, compares every *)
(* qualifying file with sShaderEntries and calls compileShader; main (the  *)
(* control thread) reads command lines and sets sApplicationExit or        *)
(* sRecompile.  The filesystem is the environment: files are created,      *)
(* touched and removed at any moment, also in the middle of a cycle.       *)
(*                                                                         *)
(* Time stamps are values of the file clock in ticks, TicksPerSec ticks to *)
(* the second; to_time_t truncates them to whole seconds, as line 103-104  *)
(* do before the comparison of line 105.                                   *)
(***************************************************************************)
EXTENDS Integers, FiniteSets, Sequences, TLC

\* ---------------------------------------------------------------- bounds
TicksPerSec == 2          \* resolution of the file clock, ticks per second
MaxSec      == 2          \* modification times range over 0 .. MaxSec seconds
MaxFsOps    == 2          \* filesystem changes made by the environment

\* ------------------------------------------------------ program constants
Threshold   == 1          \* "> 1" of line 105, in seconds

Times  == 0 .. (MaxSec * TicksPerSec)
Absent == -1              \* no such directory entry
Directory == -2           \* the entry is a directory, not a regular file
NoEntry == -1             \* sShaderEntries.find(p) == end()
NoPath == <<>>

\* A path is <<stem, extension>>; the directory holds these names.
stem(p)      == p[1]
extension(p) == p[2]

Paths == { <<"a", ".vert">>, <<"b", ".frag">> }

\* A directory is the sequence of its components. currentPath is
\* fs::current_path() of line 159; a configured directory is written relative
\* to it, << >> being the current directory itself.
currentPath == << "work" >>
\* line 187: the directory handed to watchShaders, its parameter path
path == currentPath

\* line 93: the entries fs::directory_iterator(path) yields lie in path
parent_path(p) == path

Configs ==
  [ CompileOnStartup : BOOLEAN,
    UseGoogleSPIRV : {TRUE},
    GLSLLangValidatorPath : {"glslangValidator"}, GLSLCPath : {"glslc"},
    ShaderSourcePath : {<< "shaders" >>}, SPIRVOutputPath : {"spirv"},
    SPIRVExt : {".spv"},
    VSExt : {".vert"}, FSExt : {".frag", ".fs"}, GSExt : {".geom"}, CSExt : {".comp"} ]

\* configurations that vary the compiler and the source directory, and give the
\* vertex and the fragment stage the same extension
StageConfigs ==
  [ CompileOnStartup : {FALSE},
    UseGoogleSPIRV : BOOLEAN,
    GLSLLangValidatorPath : {"glslangValidator"}, GLSLCPath : {"glslc"},
    ShaderSourcePath : {<< >>, << "shaders" >>}, SPIRVOutputPath : {"spirv"},
    SPIRVExt : {".spv"},
    VSExt : {".vert"}, FSExt : {".vert"}, GSExt : {".geom"}, CSExt : {".comp"} ]

\* the executables the shell finds, and the sources the compiler rejects
Installed == { "glslc" }
Broken == { << "a", ".vert" >> }

\* the command lines typed at the prompt
Lines == { "-h", "-q", "exit", "-r", "make" }

VARIABLES
  config,            \* Config, read from the .ini file before the threads start
  dir,               \* the watched directory: path -> modification time, Directory or Absent
  sApplicationExit,  \* atomic flag, line 58
  sRecompile,        \* atomic flag, line 59
  sFirstIteration,   \* line 60
  sShaderEntries,    \* path -> LastWriteTime or NoEntry, line 68
  pc,                \* watchShaders: "top", "scan", "check", "done", "terminated"
  todo,              \* entries the directory_iterator has still to yield
  cur,               \* the entry p under examination when pc = "check"
  mainPc,            \* main: "reading", "joining", "exited"
  compiled,          \* path -> number of compileShader calls in the current cycle
  prevEntries,       \* sShaderEntries as it was when the current cycle began
  age,               \* path -> cycle starts since the entry last changed on disk
                     \* (0..2); -1: an entry of that name was made since the last one
  forceSeen,         \* sRecompile in the current cycle: "no", "start" (true when it
                     \* began) or "later" (set while it ran)
  owed,              \* files the last recompile request still owes a compile
  deadline,          \* cycle ends left to serve that request; -1 none, 0 passed
  fsOps,             \* filesystem changes made so far
  command            \* the command line last handed to system() in the current cycle

vars == << config, dir, sApplicationExit, sRecompile, sFirstIteration, sShaderEntries,
           pc, todo, cur, mainPc, compiled, prevEntries, age, forceSeen, owed,
           deadline, fsOps, command >>

\* ------------------------------------------------------- pure functions

\* file_time_type::clock::to_time_t : whole seconds, truncated (lines 103-104)
to_time_t(t) == t \div TicksPerSec

\* validFileExts and the std::find of lines 98-99
validFileExts(cfg) == << cfg.VSExt, cfg.FSExt, cfg.GSExt, cfg.CSExt >>

IsValidExtAll(cfg, ext) == TRUE
IsValidExt(cfg, ext) == \E i \in 1..4 : validFileExts(cfg)[i] = ext

\* fs::is_regular_file(p), line 94
is_regular_file(d, p) == d[p] \in Times

\* the condition of line 105
NeedsRecompileNoForce(lastWriteTime, currentWriteTime, recompile) ==
  currentWriteTime - lastWriteTime > Threshold
NeedsRecompileAtThreshold(lastWriteTime, currentWriteTime, recompile) ==
  currentWriteTime - lastWriteTime >= Threshold \/ recompile
NeedsRecompile(lastWriteTime, currentWriteTime, recompile) ==
  currentWriteTime - lastWriteTime > Threshold \/ recompile

\* the condition of line 117
CompileNewAlways(first, cfg) == TRUE
CompileNewNever(first, cfg) == FALSE
CompileNewStartupOnly(first, cfg) == cfg.CompileOnStartup
CompileNew(first, cfg) == ~first \/ cfg.CompileOnStartup

\* line 126: the value of sRecompile after the cycle
RecompileKept(r) == r
RecompileAfterCycle(r) == FALSE

\* line 92: the condition of the while loop
LoopConditionAlways(exit) == TRUE
LoopCondition(exit) == ~exit

\* lines 105-111, condition false: the stored stamp stays as it is
StampLastObserved(old, currFileTimeType) == currFileTimeType
StampAfterSkip(old, currFileTimeType) == old

\* A string is the sequence of its pieces; " " is the blank that separates the
\* words of a command line.
\* lines 73-86: the command compileShader(filename, ext) builds and hands to system()
commandLine(cfg, filename, ext) ==
  ( IF cfg.UseGoogleSPIRV
      THEN << cfg.GLSLCPath, " ", filename, ext, " ", "-o", " ",
              cfg.SPIRVOutputPath, "/", filename, ext, cfg.SPIRVExt >>
      ELSE << cfg.GLSLLangValidatorPath, " ", "-", " ", "V", " ", filename, ext,
              " ", "-o", " ", cfg.SPIRVOutputPath, "/", filename, ext,
              cfg.SPIRVExt >> )
  \o << " ", ">", " ", "/dev/null" >>

\* the shell splits the command line into words at the blanks
RECURSIVE Words(_)
Words(s) ==
  IF s = << >> THEN << >>
  ELSE IF Head(s) = " " THEN Words(Tail(s))
  ELSE LET blanks == { i \in 1..Len(s) : s[i] = " " }
           n == IF blanks = {} THEN Len(s) + 1
                ELSE CHOOSE i \in blanks : \A j \in blanks : i <= j
       IN << SubSeq(s, 1, n - 1) >> \o Words(SubSeq(s, n, Len(s)))

\* the words before the redirection are the arguments the compiler is started with
Argv(s) ==
  LET w == Words(s)
      r == { i \in 1..Len(w) : w[i] = << ">" >> }
  IN IF r = {} THEN w
     ELSE SubSeq(w, 1, (CHOOSE i \in r : \A j \in r : i <= j) - 1)

\* the value system() returns, lines 83 and 85: 127 when the shell finds no such
\* executable, 1 when the compiler rejects the source, 0 otherwise
ExitStatus(s) ==
  LET argv == Argv(s)
  IN IF argv[1] \notin { << e >> : e \in Installed } THEN 127
     ELSE IF \E i \in 1..Len(argv) : argv[i] \in Broken THEN 1
     ELSE 0

\* line 110: the stored stamp after a recompile
StampIfSucceeded(old, currFileTimeType) ==
  IF ExitStatus(commandLine(config, stem(cur), extension(cur))) = 0
    THEN currFileTimeType ELSE old
StampKept(old, currFileTimeType) == old
StampAfterCompile(old, currFileTimeType) == currFileTimeType

\* compileShader(filename, ext): one more invocation for the file filename+ext
compileShaderPerStage(log, filename, ext) ==
  [log EXCEPT ![<<filename, ext>>] =
     @ + Cardinality({ i \in 1..4 : validFileExts(config)[i] = ext })]
compileShader(log, filename, ext) ==
  [log EXCEPT ![<<filename, ext>>] = @ + 1]

Tracked(entries) == { p \in Paths : entries[p] # NoEntry }
Present(d) == { p \in Paths : d[p] # Absent }
Min(a, b) == IF a < b THEN a ELSE b

\* compiled, prevEntries, age, forceSeen, owed and deadline observe the run and
\* are never read by an action's guard or by the program's own variables.
\* Pending: the files owed to the last recompile request and its deadline
Pending(S, d) ==
  /\ owed' = S
  /\ deadline' = IF S = {} THEN -1 ELSE d


\* ------------------------------------------------------------------ Init
InitState ==
  /\ dir \in [Paths -> {0, Absent}]
  /\ sApplicationExit = FALSE
  /\ sRecompile = FALSE
  /\ sFirstIteration = TRUE
  /\ sShaderEntries = [p \in Paths |-> NoEntry]
  /\ pc = "top"
  /\ todo = {}
  /\ cur = NoPath
  /\ mainPc = "reading"
  /\ compiled = [p \in Paths |-> 0]
  /\ prevEntries = [p \in Paths |-> NoEntry]
  /\ age = [p \in Paths |-> 0]
  /\ forceSeen = "no"
  /\ owed = {}
  /\ deadline = -1
  /\ fsOps = 0
  /\ command = << >>

\* lines 161-187: the configuration is read, then the thread is started
Init ==
  /\ config \in Configs
  /\ InitState

InitStages ==
  /\ config \in StageConfigs
  /\ InitState

\* -------------------------------------------------- watchShaders (thread)

\* line 92, condition false: the loop and the thread end
ExitLoop ==
  /\ pc = "top"
  /\ ~LoopCondition(sApplicationExit)
  /\ pc' = "done"
  /\ UNCHANGED << config, dir, sApplicationExit, sRecompile, sFirstIteration,
                  sShaderEntries, todo, cur, mainPc, compiled, prevEntries, age,
                  forceSeen, owed, deadline, fsOps, command >>

\* lines 92-93: a cycle begins, the directory_iterator is created
BeginCycle ==
  /\ pc = "top"
  /\ LoopCondition(sApplicationExit)
  /\ pc' = "scan"
  /\ todo' = Present(dir)
  /\ compiled' = [p \in Paths |-> 0]
  /\ command' = << >>
  /\ prevEntries' = sShaderEntries
  /\ age' = [p \in Paths |-> IF age[p] < 0 THEN 1 ELSE Min(age[p] + 1, 2)]
  /\ forceSeen' = IF sRecompile THEN "start" ELSE "no"
  /\ IF deadline = 0 THEN Pending({}, -1) ELSE UNCHANGED << owed, deadline >>
  /\ UNCHANGED << config, dir, sApplicationExit, sRecompile, sFirstIteration,
                  sShaderEntries, cur, mainPc, fsOps >>

\* lines 93-99: the iterator yields p; regular file and extension tests
VisitEntry(p) ==
  /\ pc = "scan"
  /\ p \in todo
  /\ todo' = todo \ {p}
  /\ IF is_regular_file(dir, p) /\ IsValidExt(config, extension(p))
       THEN pc' = "check" /\ cur' = p
       ELSE UNCHANGED << pc, cur >>
  /\ UNCHANGED << config, dir, sApplicationExit, sRecompile, sFirstIteration,
                  sShaderEntries, mainPc, compiled, prevEntries, age, forceSeen,
                  owed, deadline, fsOps, command >>

\* lines 100-121 for the entry p = cur whose modification time reads currFileTimeType
CheckFile(currFileTimeType) ==
  /\ pc' = "scan"
  /\ IF sShaderEntries[cur] # NoEntry
       THEN LET lastWriteTime    == to_time_t(sShaderEntries[cur])
                currentWriteTime == to_time_t(currFileTimeType)
            IN IF NeedsRecompile(lastWriteTime, currentWriteTime, sRecompile)
                 THEN /\ compiled' = compileShader(compiled, stem(cur), extension(cur))
                      /\ command' = commandLine(config, stem(cur), extension(cur))
                      /\ sShaderEntries' =
                           [sShaderEntries EXCEPT
                              ![cur] = StampAfterCompile(@, currFileTimeType)]
                      /\ Pending(owed \ {cur}, deadline)
                 ELSE /\ sShaderEntries' =
                           [sShaderEntries EXCEPT
                              ![cur] = StampAfterSkip(@, currFileTimeType)]
                      /\ UNCHANGED << compiled, owed, deadline, command >>
       ELSE /\ sShaderEntries' = [sShaderEntries EXCEPT ![cur] = currFileTimeType]
            /\ IF CompileNew(sFirstIteration, config)
                 THEN /\ compiled' = compileShader(compiled, stem(cur), extension(cur))
                      /\ command' = commandLine(config, stem(cur), extension(cur))
                      /\ Pending(owed \ {cur}, deadline)
                 ELSE UNCHANGED << compiled, owed, deadline, command >>

\* fs::last_write_time(p), lines 102 and 114: the entry was a regular file at
\* line 94; if it is gone by now the call throws, nothing catches the exception
\* and std::terminate ends the process; a directory that took its place has a
\* modification time of its own
CheckEntry ==
  /\ pc = "check"
  /\ \/ dir[cur] \in Times /\ CheckFile(dir[cur])
     \/ dir[cur] = Directory /\ \E t \in Times : CheckFile(t)
     \/ /\ dir[cur] = Absent
        /\ pc' = "terminated"
        /\ UNCHANGED << sShaderEntries, compiled, owed, deadline, command >>
  /\ cur' = NoPath
  /\ UNCHANGED << config, dir, sApplicationExit, sRecompile, sFirstIteration,
                  todo, mainPc, prevEntries, age, forceSeen, fsOps >>

\* lines 125-128: the pass is over
EndCycle ==
  /\ pc = "scan"
  /\ todo = {}
  /\ sFirstIteration' = FALSE
  /\ sRecompile' = RecompileAfterCycle(sRecompile)
  /\ pc' = "top"
  /\ deadline' = IF deadline > 0 THEN deadline - 1 ELSE deadline
  /\ UNCHANGED << config, dir, sApplicationExit, sShaderEntries, todo, cur, mainPc,
                  compiled, prevEntries, age, forceSeen, owed, fsOps, command >>

watchShaders ==
  \/ ExitLoop
  \/ BeginCycle
  \/ \E p \in Paths : VisitEntry(p)
  \/ CheckEntry
  \/ EndCycle

\* ------------------------------------------------------- main (thread)

IsQuitOrRecompile(line) == line \in { "-q", "-quit", "quit", "exit", "-r" }
IsQuit(line) == line \in { "-q", "-quit", "quit", "exit" }
IsRecompile(line) == line \in { "-r", "-recompile" }

\* the files a recompile request is about: tracked, present, recognized
Requested ==
  { p \in Tracked(sShaderEntries) :
      is_regular_file(dir, p) /\ IsValidExt(config, extension(p)) }

\* lines 191-206: one line read and handled
ReadLine(line) ==
  /\ mainPc = "reading"
  /\ pc # "terminated"
  /\ IF IsQuit(line)
       THEN /\ sApplicationExit' = TRUE
            /\ mainPc' = "joining"
            /\ UNCHANGED << sRecompile, forceSeen, owed, deadline >>
       ELSE /\ UNCHANGED << sApplicationExit, mainPc >>
            /\ IF IsRecompile(line)
                 THEN /\ sRecompile' = TRUE
                      /\ forceSeen' = IF pc \in {"scan", "check"} /\ forceSeen = "no"
                                        THEN "later" ELSE forceSeen
                      /\ Pending(Requested, IF pc = "top" THEN 1 ELSE 2)
                 ELSE UNCHANGED << sRecompile, forceSeen, owed, deadline >>
  /\ UNCHANGED << config, dir, sFirstIteration, sShaderEntries, pc, todo, cur,
                  compiled, prevEntries, age, fsOps, command >>

\* line 191: std::getline fails (end of input), the loop ends
InputEnd ==
  /\ mainPc = "reading"
  /\ pc # "terminated"
  /\ mainPc' = "joining"
  /\ UNCHANGED << config, dir, sApplicationExit, sRecompile, sFirstIteration,
                  sShaderEntries, pc, todo, cur, compiled, prevEntries, age,
                  forceSeen, owed, deadline, fsOps, command >>

\* lines 209-210: join returns once the thread has ended
Join ==
  /\ mainPc = "joining"
  /\ pc = "done"
  /\ mainPc' = "exited"
  /\ UNCHANGED << config, dir, sApplicationExit, sRecompile, sFirstIteration,
                  sShaderEntries, pc, todo, cur, compiled, prevEntries, age,
                  forceSeen, owed, deadline, fsOps, command >>

main ==
  \/ \E line \in Lines : ReadLine(line)
  \/ InputEnd
  \/ Join

\* ------------------------------------------- the filesystem (environment)

Running == pc \notin {"done", "terminated"}

FsChange(p, v) ==
  /\ Running
  /\ fsOps < MaxFsOps
  /\ fsOps' = fsOps + 1
  /\ dir' = [dir EXCEPT ![p] = v]
  /\ age' = [age EXCEPT ![p] = IF dir[p] = Absent \/ @ < 0 THEN -1 ELSE 0]
  /\ Pending(owed \ {p}, deadline)
  /\ UNCHANGED << config, sApplicationExit, sRecompile, sFirstIteration,
                  sShaderEntries, pc, cur, mainPc, compiled, prevEntries,
                  forceSeen, command >>

\* a running directory_iterator may or may not yield an entry made after its creation
Appears(p) ==
  \/ todo' = todo
  \/ pc \in {"scan", "check"} /\ todo' = todo \cup {p}

\* a new file appears
CreateFile(p, t) ==
  /\ dir[p] = Absent
  /\ FsChange(p, t)
  /\ Appears(p)

\* a directory of that name is made
MakeDirectory(p) ==
  /\ dir[p] = Absent
  /\ FsChange(p, Directory)
  /\ Appears(p)

\* an existing file is written: its modification time changes
TouchFile(p, t) ==
  /\ dir[p] \in Times
  /\ dir[p] # t
  /\ FsChange(p, t)
  /\ todo' = todo

\* an entry is deleted; if still to be yielded, is_regular_file(p) is false
RemoveFile(p) ==
  /\ dir[p] # Absent
  /\ FsChange(p, Absent)
  /\ todo' = todo

Environment ==
  \/ \E p \in Paths, t \in Times : CreateFile(p, t)
  \/ \E p \in Paths : MakeDirectory(p)
  \/ \E p \in Paths, t \in Times : TouchFile(p, t)
  \/ \E p \in Paths : RemoveFile(p)

Next ==
  \/ watchShaders
  \/ main
  \/ Environment

Spec == Init /\ [][Next]_vars

\* the same program started with the configurations of StageConfigs
SpecStages == InitStages /\ [][Next]_vars

\* ------------------------------------------------------------ the claims

\* the for loop of line 93 has yielded every entry; line 125 is next
PassOver == pc = "scan" /\ todo = {}

\* p has not changed on disk since the current cycle began
Steady(p) == age[p] >= 1

\* p is a regular file with a recognized extension
Qualifies(p) == is_regular_file(dir, p) /\ IsValidExt(config, extension(p))

\* C1: with CompileOnStartup false the first cycle never compiles a file that was
\* there throughout, and when its pass is over every such qualifying file has an
\* entry holding the modification time the file has
C1_FirstCycleRegistersOnly ==
  (sFirstIteration /\ ~config.CompileOnStartup) =>
    \A p \in Paths :
      Steady(p) =>
        /\ compiled[p] = 0
        /\ (PassOver /\ Qualifies(p)) => sShaderEntries[p] = dir[p]

C1_Witness ==
  /\ sFirstIteration /\ ~config.CompileOnStartup /\ PassOver
  /\ \A p \in Paths :
       Steady(p) /\ Qualifies(p) /\ dir[p] > 0 /\ sShaderEntries[p] = dir[p]
          /\ compiled[p] = 0

\* C2: with CompileOnStartup true, when the pass of the first cycle is over every
\* qualifying file that was there throughout has been compiled exactly once
C2_FirstCycleCompilesOnce ==
  (sFirstIteration /\ config.CompileOnStartup /\ PassOver) =>
    \A p \in Paths : (Steady(p) /\ Qualifies(p)) => compiled[p] = 1

C2_Witness ==
  /\ sFirstIteration /\ config.CompileOnStartup /\ PassOver
  /\ \A p \in Paths : Steady(p) /\ Qualifies(p) /\ compiled[p] = 1

\* C3: in a cycle that is not the first, a qualifying file that had no entry when
\* the cycle began and was there throughout is compiled exactly once and has an
\* entry when the pass is over, whatever CompileOnStartup is
C3_NewFileCompiledOnce ==
  (~sFirstIteration /\ PassOver) =>
    \A p \in Paths :
      (Steady(p) /\ Qualifies(p) /\ prevEntries[p] = NoEntry) =>
        (compiled[p] = 1 /\ sShaderEntries[p] = dir[p])

C3_Witness ==
  /\ ~sFirstIteration /\ PassOver /\ ~config.CompileOnStartup
  /\ \E p \in Paths :
       /\ age[p] = 1 /\ Qualifies(p) /\ prevEntries[p] = NoEntry
       /\ compiled[p] = 1 /\ sShaderEntries[p] = dir[p]

\* C4: a tracked file whose modification time c exceeds the stored stamp s by
\* more than one second of the file clock is compiled exactly once in the next
\* cycle and its stamp becomes c
C4_ModifiedCompiledOnce ==
  PassOver =>
    \A p \in Paths :
      (/\ Steady(p) /\ Qualifies(p) /\ prevEntries[p] # NoEntry
       /\ dir[p] - prevEntries[p] > Threshold * TicksPerSec) =>
        (compiled[p] = 1 /\ sShaderEntries[p] = dir[p])

\* C5: a tracked file whose modification time is within one second of the stored
\* stamp is not compiled in a cycle during which sRecompile is false
C5_WithinThresholdNoCompile ==
  \A p \in Paths :
    (/\ pc \in {"scan", "check"} /\ forceSeen = "no"
     /\ Steady(p) /\ is_regular_file(dir, p) /\ prevEntries[p] # NoEntry
     /\ dir[p] - prevEntries[p] <= Threshold * TicksPerSec
     /\ prevEntries[p] - dir[p] <= Threshold * TicksPerSec) =>
      (compiled[p] = 0 /\ sShaderEntries[p] = prevEntries[p])

C5_Witness ==
  /\ PassOver /\ forceSeen = "no"
  /\ \E p \in Paths :
       /\ Steady(p) /\ Qualifies(p) /\ prevEntries[p] # NoEntry
       /\ dir[p] - prevEntries[p] = Threshold * TicksPerSec
       /\ compiled[p] = 0

\* C6: when sRecompile is true as a cycle begins, the cycle compiles exactly once
\* every qualifying file that was tracked when it began and was there throughout
C6_ForcedCycleCompilesAll ==
  (PassOver /\ forceSeen = "start") =>
    \A p \in Paths :
      (Steady(p) /\ Qualifies(p) /\ prevEntries[p] # NoEntry) => compiled[p] = 1

C6_Witness ==
  /\ PassOver /\ forceSeen = "start"
  /\ \A p \in Paths :
       /\ Steady(p) /\ Qualifies(p) /\ prevEntries[p] = dir[p]
       /\ compiled[p] = 1

\* C7: a recompile request is never lost: every file that was tracked and
\* present when it was made (and has not changed on disk since) is compiled
\* before the next full cycle ends
C7_RequestNeverLost == deadline = 0 => owed = {}

\* C8: the step that ends a cycle leaves sRecompile false
C8_CycleClearsRecompile ==
  [][(pc = "scan" /\ pc' = "top") => ~sRecompile']_vars

C8_Witness ==
  /\ pc = "top" /\ ~sFirstIteration /\ forceSeen = "start" /\ ~sRecompile
  /\ \A p \in Paths : dir[p] = Absent /\ age[p] = 2

\* the configured recognized set {vs_ext, fs_ext, gs_ext, cs_ext}
Recognized == { config.VSExt, config.FSExt, config.GSExt, config.CSExt }

\* C9: a file whose extension is not recognized has no entry and is never compiled
C9_UnrecognizedIgnored ==
  \A p \in Paths :
    extension(p) \notin Recognized => (sShaderEntries[p] = NoEntry /\ compiled[p] = 0)

C9_Witness ==
  /\ PassOver /\ sRecompile /\ ~sFirstIteration
  /\ \E p \in Paths :
       /\ extension(p) \notin Recognized /\ is_regular_file(dir, p)
       /\ dir[p] > TicksPerSec /\ age[p] = 1
       /\ sShaderEntries[p] = NoEntry /\ compiled[p] = 0

\* C10: a cycle that follows another with no change on disk since that one began,
\* and during which sRecompile is false, compiles nothing and leaves
\* sShaderEntries as it was
C10_SecondCycleIdle ==
  (pc \in {"scan", "check"} /\ forceSeen = "no" /\ \A p \in Paths : age[p] = 2) =>
    /\ \A p \in Paths : compiled[p] = 0
    /\ sShaderEntries = prevEntries

C10_Witness ==
  /\ PassOver /\ forceSeen = "no"
  /\ \A p \in Paths : age[p] = 2 /\ Qualifies(p) /\ compiled[p] = 0
  /\ \E p \in Paths : sShaderEntries[p] # dir[p]
  /\ \E p \in Paths : sShaderEntries[p] = dir[p] /\ dir[p] > TicksPerSec

\* C11: once sApplicationExit is true it stays true and the loop condition of
\* line 92 never again lets a cycle begin, so the cycle that was running when the
\* flag was set is the last one; a scheduler that has left its loop never
\* enumerates, compiles or writes an entry again
C11_StopEndsScheduler ==
  [][ /\ sApplicationExit =>
           (sApplicationExit' /\ ~(pc = "top" /\ pc' = "scan"))
      /\ pc = "done" =>
           (pc' = "done" /\ UNCHANGED << todo, cur, compiled, command, sShaderEntries >>)
    ]_vars

\* the scheduler has left its loop although a tracked file was modified more than
\* the threshold after its stamp
C11_Witness ==
  /\ pc = "done"
  /\ \E p \in Paths :
       /\ Qualifies(p) /\ sShaderEntries[p] # NoEntry
       /\ to_time_t(dir[p]) - to_time_t(sShaderEntries[p]) > Threshold

\* C12: after a quit command main has stopped reading, the scheduler is on its
\* way out of its loop or has left it (it has not died on the way), and main
\* returns only after the scheduler thread has ended
C12_CooperativeShutdown ==
  /\ sApplicationExit => mainPc # "reading"
  /\ sApplicationExit => pc \in {"top", "scan", "check", "done"}
  /\ mainPc = "exited" => pc = "done"

\* C13: a failing filesystem call never ends the scheduler thread or the process
C13_EnumerationErrorSurvived == pc # "terminated"

\* the compiler invocation for p fails: system() returns a value other than 0
Failed(p) == ExitStatus(commandLine(config, stem(p), extension(p))) # 0

\* C14: a compile that fails counts like one that succeeds: when the pass is over
\* a file compiled in it carries its modification time as stamp and every other
\* qualifying file has been handled too, and in a later cycle without a recompile
\* request the file is not compiled again while it stays unchanged (files that
\* did not change on disk during the cycle)
C14_FailedCompileCounts ==
  \A p \in Paths :
    Failed(p) =>
      /\ (PassOver /\ Steady(p) /\ compiled[p] >= 1) =>
           /\ sShaderEntries[p] = dir[p]
           /\ \A q \in Paths :
                (Steady(q) /\ Qualifies(q)) => sShaderEntries[q] # NoEntry
      /\ (pc \in {"scan", "check"} /\ forceSeen = "no" /\ age[p] = 2) =>
           compiled[p] = 0

\* a failing recompile of a modified file has overwritten its stamp and the
\* cycle has gone on to compile another file
C14_Witness ==
  /\ PassOver
  /\ \E p, q \in Paths :
       /\ Failed(p) /\ Steady(p) /\ compiled[p] = 1
       /\ prevEntries[p] \notin {NoEntry, dir[p]} /\ sShaderEntries[p] = dir[p]
       /\ q # p /\ ~Failed(q) /\ compiled[q] = 1
       /\ command = commandLine(config, stem(q), extension(q))

\* the directory a configured path names
absolute(relative) == currentPath \o relative

\* C15: when the configured source directory is not the current directory, every
\* file that has an entry or was compiled lies directly in the configured directory
C15_WatchesConfiguredDirectory ==
  absolute(config.ShaderSourcePath) # currentPath =>
    \A p \in Paths :
      (sShaderEntries[p] # NoEntry \/ compiled[p] > 0) =>
        parent_path(p) = absolute(config.ShaderSourcePath)

\* the arguments the compiler is to be started with for the file filename+ext:
\* the glslc form, and the glslangValidator form with its option -V
SpecifiedArgv(cfg, filename, ext) ==
  IF cfg.UseGoogleSPIRV
    THEN << << cfg.GLSLCPath >>, << filename, ext >>, << "-o" >>,
            << cfg.SPIRVOutputPath, "/", filename, ext, cfg.SPIRVExt >> >>
    ELSE << << cfg.GLSLLangValidatorPath >>, << "-", "V" >>, << filename, ext >>,
            << "-o" >>,
            << cfg.SPIRVOutputPath, "/", filename, ext, cfg.SPIRVExt >> >>

\* C16: the command handed to system() for a file starts the configured compiler
\* with exactly the specified arguments, -V being one word
C16_CommandLineAsSpecified ==
  \A p \in Paths :
    command = commandLine(config, stem(p), extension(p)) =>
      Argv(command) = SpecifiedArgv(config, stem(p), extension(p))

\* an entry named p was made while the current cycle ran (or since it ended)
MadeInCycle(p) == age[p] < 0

\* C17: no cycle compiles a file more than once, whatever the configuration and
\* the flags; compiled counts by name, and a file made while the cycle ran under
\* the name of one that was deleted is another file
C17_AtMostOncePerFile ==
  \A p \in Paths : ~MadeInCycle(p) => compiled[p] <= 1

\* the extension of p is configured for two stages, p was modified past the
\* threshold and a recompile request was pending: p was compiled once
C17_Witness ==
  /\ PassOver /\ forceSeen = "start"
  /\ \E p \in Paths :
       /\ Cardinality({ i \in 1..4 : validFileExts(config)[i] = extension(p) }) = 2
       /\ Steady(p) /\ Qualifies(p) /\ prevEntries[p] # NoEntry
       /\ to_time_t(dir[p]) - to_time_t(prevEntries[p]) > Threshold
       /\ compiled[p] = 1

\* the command words
QuitWords == { "-q", "-quit", "quit", "exit" }
RecompileWords == { "-r", "-recompile" }

\* C18: a line read by main leaves sShaderEntries and sFirstIteration alone; a
\* quit word sets sApplicationExit and leaves sRecompile alone, a recompile word
\* sets sRecompile and leaves sApplicationExit alone, any other line leaves both
\* alone; and no step at all clears sApplicationExit
C18_CommandFrame ==
  [][ /\ \A line \in Lines :
           ReadLine(line) =>
             /\ UNCHANGED << sShaderEntries, sFirstIteration >>
             /\ line \in QuitWords =>
                  (sApplicationExit' /\ UNCHANGED sRecompile)
             /\ line \in RecompileWords =>
                  (sRecompile' /\ UNCHANGED sApplicationExit)
             /\ line \notin QuitWords \cup RecompileWords =>
                  UNCHANGED << sApplicationExit, sRecompile >>
      /\ sApplicationExit => sApplicationExit'
    ]_vars

\* a quit word was read while a recompile request was pending and files were
\* tracked: the request is still pending
C18_Witness ==
  /\ sApplicationExit /\ sRecompile /\ mainPc = "joining"
  /\ ~sFirstIteration /\ Tracked(sShaderEntries) # {}

\* C19: whenever main has left its command loop and waits in join,
\* sApplicationExit is true
C19_JoinOnlyAfterStop == mainPc = "joining" => sApplicationExit

\* C20: an entry of sShaderEntries is never removed; its value changes only in the
\* step that handles its file, either when the entry is inserted or together with
\* a compile of that file, and the value written is the modification time the
\* file has at that step; while a cycle has not compiled a file that was tracked
\* when the cycle began, the file's stamp is the one it had then
C20_EntryFrame ==
  [][ \A p \in Paths :
        /\ sShaderEntries[p] # NoEntry => sShaderEntries'[p] # NoEntry
        /\ sShaderEntries'[p] # sShaderEntries[p] =>
             /\ pc = "check" /\ cur = p
             /\ sShaderEntries[p] = NoEntry \/ compiled'[p] = compiled[p] + 1
             /\ dir[p] \in Times => sShaderEntries'[p] = dir[p]
        /\ (prevEntries'[p] # NoEntry /\ compiled'[p] = 0) =>
             sShaderEntries'[p] = prevEntries'[p]
    ]_vars

\* a tracked file was deleted and made again while the cycle ran: it was found
\* in sShaderEntries and compiled as a modified file, not inserted as a new one
C20_Witness ==
  /\ forceSeen = "no"
  /\ \E p \in Paths :
       /\ MadeInCycle(p) /\ prevEntries[p] # NoEntry
       /\ compiled[p] = 1
       /\ sShaderEntries[p] = dir[p] /\ dir[p] # prevEntries[p]

TypeOK ==
  /\ config \in Configs \cup StageConfigs
  /\ age \in [Paths -> -1..2]
  /\ command \in { << >> } \cup
       { commandLine(config, stem(p), extension(p)) : p \in Paths }
  /\ dir \in [Paths -> Times \cup {Absent, Directory}]
  /\ sShaderEntries \in [Paths -> Times \cup {NoEntry}]
  /\ pc \in {"top", "scan", "check", "done", "terminated"}
  /\ mainPc \in {"reading", "joining", "exited"}
  /\ todo \subseteq Paths
  /\ deadline \in -1..2
  /\ (deadline = -1) = (owed = {})
====
